---- MODULE Spec2Model ----
(***************************************************************************)
(* Model of the authentication core of canvas-auth-utem (src/auth.py):     *)
(* the user directory, the per-identity rate limiter, the Streamlit        *)
(* session and the authorization queries of class AuthenticationSystem.    *)
(*                                                                         *)
(* Encodings.  A Python dict is a TLA+ function whose DOMAIN is the set of *)
(* keys present.  Python objects that are shared by reference (the profile *)
(* dicts held by users_db and by st.session_state.user_data) live in       *)
(* `heap`, and the holders keep references.  An e-mail string is the       *)
(* sequence of its pieces (local part, "@", domain labels), so that        *)
(* str.endswith is a real suffix test.  Python None is NoRef / NoTime /    *)
(* NoUser / NoneStr according to the type of the slot that holds it.       *)
(* The clock (time.time() and datetime.now()) is `now`, in seconds since   *)
(* construction.                                                           *)
(* A directory entry that is None (a null in users.json) is the reference  *)
(* NoRef.  The text of users.json is a tree of kind-tagged JSON values,    *)
(* written by Serialize and read back by json_load.                        *)
(*                                                                         *)
(* Specifications: Spec (a sound store, string identities), SpecFaults (a  *)
(* hand-edited store, failing writes, login(None)), SpecClock (logins on a *)
(* fine clock), SpecInstances (a new AuthenticationSystem is built),       *)
(* SpecPages (the session used through login_required) and SpecRoles (the  *)
(* pure function config.can_manage_role).                                  *)
(***************************************************************************)
EXTENDS Integers, Sequences, FiniteSets, TLC

VARIABLES
    now,             \* the wall clock read by time.time() / datetime.now()
    ticks,           \* how many times the clock has moved (bounded)
    users_db,        \* self.users_db: e-mail -> reference to a profile dict
    heap,            \* the profile dicts: reference -> dict
    users_file,      \* the content of users.json on disk
    login_attempts,  \* self.login_attempts: e-mail -> attempt record
    session,         \* st.session_state
    muts,            \* how many directory mutations were made (bounded)
    role_call        \* a call of config.can_manage_role: its arguments and what it returned

vars == <<now, ticks, users_db, heap, users_file, login_attempts, session, muts, role_call>>

----------------------------------------------------------------------------
(* Bounds of the model *)

MaxTicks == 1
MaxMuts == 1
MaxRows == 2

(* Program constants *)

max_attempts == 5
lockout_duration == 300
timeout_sesion == 3600

(* Python None, by slot type *)

NoRef == 0
NoTime == 0 - 1
NoUser == << >>
NoneStr == "<None>"

----------------------------------------------------------------------------
(* Identities *)

ADMIN == <<"admin", "@", "utem.cl">>
VICTOR == <<"victor.escobar", "@", "utem.cl">>
MARIA == <<"maria.garcia", "@", "utem.cl">>
JUAN == <<"juan.perez", "@", "utem.cl">>
ANA == <<"ana.torres", "@", "utem.cl">>
NUEVO == <<"nuevo", "@", "alumnos.", "utem.cl">>
EVE == <<"eve", "@", "gmail.com">>

\* the identities login is called with
LoginEmails == {JUAN, EVE}

\* the identities add_user, update_user and delete_user are called with
AddEmails == {JUAN, EVE}
UpdateEmails == {JUAN}
DeleteEmails == {ADMIN, JUAN}

\* seconds by which the environment lets the clock move between two calls
Deltas == {lockout_duration, timeout_sesion, timeout_sesion + 1}

----------------------------------------------------------------------------
(* Python helpers *)

\* dict.get(k, default)
Get(d, k, default) == IF k \in DOMAIN d THEN d[k] ELSE default

\* d[k] = v on a dict
Put(d, k, v) == [x \in DOMAIN d \cup {k} |-> IF x = k THEN v ELSE d[x]]

\* del d[k]
Del(d, k) == [x \in DOMAIN d \ {k} |-> d[x]]

\* `x in list`
InList(x, list) == \E i \in 1..Len(list) : list[i] = x

\* str.endswith(suffix)
EndsWith(s, suffix) ==
    /\ Len(suffix) <= Len(s)
    /\ SubSeq(s, Len(s) - Len(suffix) + 1, Len(s)) = suffix

\* datetime.isoformat(): the instant rendered as text
isoformat(t) == <<"iso", t>>

\* truth value of a timestamp slot (None and 0.0 are falsy)
TruthyTime(t) == t # NoTime /\ t # 0

----------------------------------------------------------------------------
(* Policy configuration: create_default_config *)

default_config ==
    [ roles |->
        [ admin |-> [nombre |-> "Administrador", nivel |-> 100,
                     permisos_base |-> <<"lectura", "escritura", "exportacion",
                                         "admin", "gestion", "reportes">>,
                     acceso_completo |-> TRUE],
          decano |-> [nombre |-> "Decano", nivel |-> 80,
                      permisos_base |-> <<"lectura", "exportacion", "reportes", "gestion">>,
                      acceso_completo |-> FALSE],
          director_informatica |->
                     [nombre |-> "Director de Informatica", nivel |-> 70,
                      permisos_base |-> <<"lectura", "exportacion", "reportes">>,
                      acceso_completo |-> FALSE],
          director_ciencias |->
                     [nombre |-> "Director de Ciencias", nivel |-> 70,
                      permisos_base |-> <<"lectura", "exportacion", "reportes">>,
                      acceso_completo |-> FALSE],
          profesor |-> [nombre |-> "Profesor", nivel |-> 30,
                        permisos_base |-> <<"lectura">>,
                        acceso_completo |-> FALSE] ],
      dominios_permitidos |-> << <<"@", "utem.cl">>,
                                 <<"@", "profesores.", "utem.cl">>,
                                 <<"@", "alumnos.", "utem.cl">> >>,
      timeout_sesion |-> timeout_sesion,
      max_intentos_login |-> 5,
      duracion_bloqueo |-> 300 ]

\* self.config after load_config with no config.json present
config == default_config

(* User directory: create_default_users *)

default_users(t) ==
    (ADMIN :> [nombre |-> "Administrador Sistema", rol |-> "admin",
               facultad |-> "todas", departamento |-> "sistemas",
               permisos |-> <<"lectura", "escritura", "exportacion", "admin">>,
               activo |-> TRUE, fecha_creacion |-> isoformat(t)])
 @@ (VICTOR :> [nombre |-> "Victor Escobar", rol |-> "director_informatica",
                facultad |-> "ingenieria", departamento |-> "informatica",
                permisos |-> <<"lectura", "exportacion", "reportes">>,
                activo |-> TRUE, fecha_creacion |-> isoformat(t)])
 @@ (MARIA :> [nombre |-> "Maria Garcia", rol |-> "director_ciencias",
               facultad |-> "ciencias", departamento |-> "ciencias",
               permisos |-> <<"lectura", "exportacion", "reportes">>,
               activo |-> TRUE, fecha_creacion |-> isoformat(t)])
 @@ (JUAN :> [nombre |-> "Juan Perez", rol |-> "profesor",
              facultad |-> "ingenieria", departamento |-> "informatica",
              permisos |-> <<"lectura">>,
              activo |-> TRUE, fecha_creacion |-> isoformat(t)])
 @@ (ANA :> [nombre |-> "Ana Torres", rol |-> "decano",
             facultad |-> "quimica", departamento |-> "quimica",
             permisos |-> <<"lectura", "exportacion", "reportes", "gestion">>,
             activo |-> TRUE, fecha_creacion |-> isoformat(t)])

----------------------------------------------------------------------------
(* The backing store and the object heap *)

\* the order in which json.load builds the profile dicts of a loaded file
AllEmails == <<ADMIN, VICTOR, MARIA, JUAN, ANA, NUEVO, EVE>>

IndexOf(e) == CHOOSE i \in 1..Len(AllEmails) : AllEmails[i] = e

\* the reference of the dict built for e, which is not the one the session still holds
RefOf(e, keep) == IF IndexOf(e) = keep THEN Len(AllEmails) + 1 ELSE IndexOf(e)

\* users.json holding the JSON text `content`
StoredFile(content) == [state |-> "ok", content |-> content]
MissingFile == [state |-> "missing"]
CorruptFile == [state |-> "corrupt"]

\* the JSON text json.dump writes for one profile field, by the Python type it holds
json_value(k, v) ==
    CASE k = "activo" -> [kind |-> IF v THEN "true" ELSE "false"]
      [] k = "permisos" ->
            [kind |-> "array",
             items |-> [i \in 1..Len(v) |-> [kind |-> "string", text |-> v[i]]]]
      [] OTHER -> [kind |-> "string", text |-> v]

\* the Python value json.load builds from a JSON member
py_value(j) ==
    CASE j.kind = "true" -> TRUE
      [] j.kind = "false" -> FALSE
      [] j.kind = "array" -> [i \in DOMAIN j.items |-> j.items[i].text]
      [] OTHER -> j.text

\* json.dump(self.users_db): every profile written by value, None as null
Serialize(db, hp) ==
    [e \in DOMAIN db |->
        IF db[e] = NoRef THEN [kind |-> "null"]
        ELSE [kind |-> "object",
              members |-> [k \in DOMAIN hp[db[e]] |-> json_value(k, hp[db[e]][k])]]]

\* json.load: the profile dicts of the entries that are JSON objects
json_load(text) ==
    [e \in {x \in DOMAIN text : text[x].kind = "object"} |->
        [k \in DOMAIN text[e].members |-> py_value(text[e].members[k])]]

\* json.load: the entries that are JSON null
json_nulls(text) == {x \in DOMAIN text : text[x].kind = "null"}

\* the references users_db holds after it was built from `content`
LoadedDb(content, nulls, keep) ==
    [e \in DOMAIN content \cup nulls |-> IF e \in nulls THEN NoRef ELSE RefOf(e, keep)]

\* the dicts those references point to
LoadedHeap(content, keep) ==
    [r \in {RefOf(e, keep) : e \in DOMAIN content} |->
        content[CHOOSE e \in DOMAIN content : RefOf(e, keep) = r]]

\* save_users: the file is rewritten, or the write fails and the error is only logged
save_users(db, hp, file, io_ok) == IF io_ok THEN StoredFile(Serialize(db, hp)) ELSE file

\* mutant: a missing store gives an empty directory and no default users
load_users_empty(file, t, keep, io_ok) ==
    IF file.state = "missing" \/ file.state = "corrupt"
    THEN [users_db |-> << >>, heap |-> << >>, users_file |-> file]
    ELSE [users_db |-> LoadedDb(json_load(file.content), json_nulls(file.content), keep),
          heap |-> LoadedHeap(json_load(file.content), keep),
          users_file |-> file]

\* load_users at clock t: the directory built, and the file it leaves
load_users(file, t, keep, io_ok) ==
    IF file.state = "missing"
    THEN \* create_default_users, then save_users
         [users_db |-> LoadedDb(default_users(t), {}, keep),
          heap |-> LoadedHeap(default_users(t), keep),
          users_file |-> save_users(LoadedDb(default_users(t), {}, keep),
                                    LoadedHeap(default_users(t), keep), file, io_ok)]
    ELSE IF file.state = "corrupt"
    THEN \* json.load raised: the directory starts empty
         [users_db |-> << >>, heap |-> << >>, users_file |-> file]
    ELSE [users_db |-> LoadedDb(json_load(file.content), json_nulls(file.content), keep),
          heap |-> LoadedHeap(json_load(file.content), keep),
          users_file |-> file]

\* the references still held by users_db or by the session
Live(db, ses) == ({db[e] : e \in DOMAIN db} \cup {ses.user_data}) \ {NoRef}

\* Python frees a dict nobody references
Collect(hp, db, ses) == [r \in Live(db, ses) |-> hp[r]]

\* a reference no live dict has
FreshRef(hp) == CHOOSE r \in 1..(Cardinality(DOMAIN hp) + 1) : r \notin DOMAIN hp

----------------------------------------------------------------------------
(* Session state *)

\* init_session_state: the defaults of a new browser session
init_session_state ==
    [authenticated |-> FALSE, user |-> NoUser, user_data |-> NoRef,
     login_time |-> NoTime, last_activity |-> NoTime]

\* the (success, message) pair a call returns; the message is named by its outcome
Returned(ok, msg) == [ok |-> ok, msg |-> msg]

----------------------------------------------------------------------------
(* Rate limiter *)

ZeroRecord(t) == [attempts |-> 0, last_attempt |-> t, locked_until |-> NoTime]

\* mutant: the boundary instant still counts as locked
InLockout_inclusive(info, t) == TruthyTime(info.locked_until) /\ t <= info.locked_until

\* the lockout test of check_rate_limit: still inside the lockout period
InLockout(info, t) == TruthyTime(info.locked_until) /\ t < info.locked_until

\* the lockout has run out
LockoutOver(info, t) == TruthyTime(info.locked_until) /\ t >= info.locked_until

\* mutant: an attempt made during the lockout starts the lockout period again
check_rate_limit_extends(la, email, t) ==
    IF email \in DOMAIN la
    THEN IF InLockout(la[email], t)
         THEN [allowed |-> FALSE, remaining |-> la[email].locked_until - t,
               attempts |-> Put(la, email,
                                [la[email] EXCEPT !.last_attempt = t,
                                                  !.locked_until = t + lockout_duration])]
         ELSE IF LockoutOver(la[email], t)
              THEN [allowed |-> TRUE, remaining |-> NoTime,
                    attempts |-> Put(la, email, ZeroRecord(t))]
              ELSE [allowed |-> TRUE, remaining |-> NoTime, attempts |-> la]
    ELSE [allowed |-> TRUE, remaining |-> NoTime, attempts |-> Put(la, email, ZeroRecord(t))]

\* mutant: the reset after a lockout clears locked_until and keeps the count
check_rate_limit_keeps_count(la, email, t) ==
    IF email \in DOMAIN la
    THEN IF InLockout(la[email], t)
         THEN [allowed |-> FALSE, remaining |-> la[email].locked_until - t, attempts |-> la]
         ELSE IF LockoutOver(la[email], t)
              THEN [allowed |-> TRUE, remaining |-> NoTime,
                    attempts |-> Put(la, email,
                                     [la[email] EXCEPT !.last_attempt = t,
                                                       !.locked_until = NoTime])]
              ELSE [allowed |-> TRUE, remaining |-> NoTime, attempts |-> la]
    ELSE [allowed |-> TRUE, remaining |-> NoTime, attempts |-> Put(la, email, ZeroRecord(t))]

\* mutant: a record whose last attempt is older than the lockout period is reset
check_rate_limit_ages(la, email, t) ==
    IF email \in DOMAIN la
    THEN IF InLockout(la[email], t)
         THEN [allowed |-> FALSE, remaining |-> la[email].locked_until - t, attempts |-> la]
         ELSE IF LockoutOver(la[email], t) \/ t - la[email].last_attempt > lockout_duration
              THEN [allowed |-> TRUE, remaining |-> NoTime,
                    attempts |-> Put(la, email, ZeroRecord(t))]
              ELSE [allowed |-> TRUE, remaining |-> NoTime, attempts |-> la]
    ELSE [allowed |-> TRUE, remaining |-> NoTime, attempts |-> Put(la, email, ZeroRecord(t))]

\* check_rate_limit(email) read at clock t: the answer and the table it leaves
check_rate_limit(la, email, t) ==
    IF email \in DOMAIN la
    THEN IF InLockout(la[email], t)
         THEN [allowed |-> FALSE, remaining |-> la[email].locked_until - t, attempts |-> la]
         ELSE IF LockoutOver(la[email], t)
              THEN [allowed |-> TRUE, remaining |-> NoTime,
                    attempts |-> Put(la, email, ZeroRecord(t))]
              ELSE [allowed |-> TRUE, remaining |-> NoTime, attempts |-> la]
    ELSE [allowed |-> TRUE, remaining |-> NoTime, attempts |-> Put(la, email, ZeroRecord(t))]

\* mutant: the lockout starts one failure late
ReachedMax_late(n) == n > max_attempts

\* the threshold test of record_login_attempt
ReachedMax(n) == n >= max_attempts

\* mutant: a success refreshes last_attempt and keeps the failed attempts
record_login_attempt_keep(la, email, success, t) ==
    LET la1 == IF email \in DOMAIN la THEN la ELSE Put(la, email, ZeroRecord(t))
        n == la1[email].attempts + 1
    IN  IF ~success
        THEN Put(la1, email,
                 [attempts |-> n, last_attempt |-> t,
                  locked_until |-> IF ReachedMax(n) THEN t + lockout_duration
                                   ELSE la1[email].locked_until])
        ELSE Put(la1, email, [la1[email] EXCEPT !.last_attempt = t])

\* mutant: a failure is counted on the record of every identity
record_login_attempt_all(la, email, success, t) ==
    LET la1 == IF email \in DOMAIN la THEN la ELSE Put(la, email, ZeroRecord(t))
    IN  IF ~success
        THEN [x \in DOMAIN la1 |->
                [attempts |-> la1[x].attempts + 1, last_attempt |-> t,
                 locked_until |-> IF ReachedMax(la1[x].attempts + 1)
                                  THEN t + lockout_duration
                                  ELSE la1[x].locked_until]]
        ELSE Put(la1, email, ZeroRecord(t))

\* record_login_attempt(email, success) read at clock t: the table it leaves
record_login_attempt(la, email, success, t) ==
    LET la1 == IF email \in DOMAIN la THEN la ELSE Put(la, email, ZeroRecord(t))
        n == la1[email].attempts + 1
    IN  IF ~success
        THEN Put(la1, email,
                 [attempts |-> n, last_attempt |-> t,
                  locked_until |-> IF ReachedMax(n) THEN t + lockout_duration
                                   ELSE la1[email].locked_until])
        ELSE Put(la1, email, ZeroRecord(t))

\* mutant: the loop returns on its first domain without testing the suffix
validate_domain_any(email) == Len(Get(config, "dominios_permitidos", << >>)) > 0

\* validate_domain(email)
validate_domain(email) ==
    \E i \in 1..Len(Get(config, "dominios_permitidos", << >>)) :
        EndsWith(email, config.dominios_permitidos[i])

\* email.endswith raises AttributeError when validate_domain is handed None
validate_domain_raises(email) ==
    email = NoUser /\ Len(Get(config, "dominios_permitidos", << >>)) > 0

----------------------------------------------------------------------------
(* Construction: __init__ = load_users, load_config, init_session_state *)

\* the states of users.json the program is started on
StartupFiles == {MissingFile, CorruptFile}

\* the fields __init__ sets when it finds `file`
Constructed(file, io_ok) ==
    /\ users_db = load_users(file, 0, NoRef, io_ok).users_db
    /\ heap = load_users(file, 0, NoRef, io_ok).heap
    /\ users_file = load_users(file, 0, NoRef, io_ok).users_file
    /\ login_attempts = << >>
    /\ session = init_session_state

\* no call of can_manage_role is under way
NoCall ==
    [manager_role |-> NoneStr, target_role |-> NoneStr, third_role |-> NoneStr,
     done |-> FALSE, result |-> FALSE]

Init ==
    /\ now = 0
    /\ ticks = 0
    /\ muts = 0
    /\ role_call = NoCall
    /\ \E file \in StartupFiles : Constructed(file, TRUE)

----------------------------------------------------------------------------
(* The clock *)

Advance(d) ==
    /\ ticks < MaxTicks
    /\ now' = now + d
    /\ ticks' = ticks + 1
    /\ UNCHANGED <<users_db, heap, users_file, login_attempts, session, muts, role_call>>

----------------------------------------------------------------------------
(* login(email).  A call takes no time: every clock read of one call      *)
(* returns `now`.  An exception raised inside the try block is caught by   *)
(* the handler of login, which returns the generic error.                  *)

\* mutant: the domain gate is evaluated before the rate-limit gate
login_result_domain_first(email) ==
    IF validate_domain_raises(email)
    THEN Returned(FALSE, "AuthError")
    ELSE IF ~validate_domain(email)
    THEN Returned(FALSE, "DomainRejected")
    ELSE IF ~check_rate_limit(login_attempts, email, now).allowed
    THEN Returned(FALSE, "RateLimited")
    ELSE IF email \notin DOMAIN users_db
    THEN Returned(FALSE, "NotRegistered")
    ELSE IF users_db[email] = NoRef
    THEN Returned(FALSE, "AuthError")
    ELSE IF ~Get(heap[users_db[email]], "activo", FALSE)
    THEN Returned(FALSE, "InactiveAccount")
    ELSE Returned(TRUE, "Bienvenido")

\* mutant: a profile without the activo flag counts as active
login_result_default_active(email) ==
    IF ~check_rate_limit(login_attempts, email, now).allowed
    THEN Returned(FALSE, "RateLimited")
    ELSE IF validate_domain_raises(email)
    THEN Returned(FALSE, "AuthError")
    ELSE IF ~validate_domain(email)
    THEN Returned(FALSE, "DomainRejected")
    ELSE IF email \notin DOMAIN users_db
    THEN Returned(FALSE, "NotRegistered")
    ELSE IF users_db[email] = NoRef
    THEN Returned(FALSE, "AuthError")
    ELSE IF ~Get(heap[users_db[email]], "activo", TRUE)
    THEN Returned(FALSE, "InactiveAccount")
    ELSE Returned(TRUE, "Bienvenido")

\* the gates of login in the order the code evaluates them: what it returns
login_result(email) ==
    IF ~check_rate_limit(login_attempts, email, now).allowed
    THEN Returned(FALSE, "RateLimited")
    ELSE IF validate_domain_raises(email)
    THEN Returned(FALSE, "AuthError")
    ELSE IF ~validate_domain(email)
    THEN Returned(FALSE, "DomainRejected")
    ELSE IF email \notin DOMAIN users_db
    THEN Returned(FALSE, "NotRegistered")
    ELSE IF users_db[email] = NoRef
    THEN \* user_data.get raises AttributeError on None
         Returned(FALSE, "AuthError")
    ELSE IF ~Get(heap[users_db[email]], "activo", FALSE)
    THEN Returned(FALSE, "InactiveAccount")
    ELSE Returned(TRUE, "Bienvenido")

\* the seconds named in the lockout message
remaining(email) == check_rate_limit(login_attempts, email, now).remaining

\* mutant: last_activity is not written at login
EstablishedSession_no_activity(email, ref, t) ==
    [authenticated |-> TRUE, user |-> email, user_data |-> ref,
     login_time |-> t, last_activity |-> NoTime]

\* the session fields written by a successful login
EstablishedSession(email, ref, t) ==
    [authenticated |-> TRUE, user |-> email, user_data |-> ref,
     login_time |-> t, last_activity |-> t]

\* mutant: a rejected login ends the session that was open
login_rejects_logout(email) ==
    LET crl == check_rate_limit(login_attempts, email, now)
        res == login_result(email)
    IN
    /\ UNCHANGED <<role_call, now, ticks, users_db, users_file, muts>>
    /\ IF res.msg = "RateLimited" \/ res.msg = "AuthError"
       THEN /\ login_attempts' = crl.attempts
            /\ UNCHANGED <<session, heap>>
       ELSE IF ~res.ok
       THEN /\ login_attempts' = record_login_attempt(crl.attempts, email, FALSE, now)
            /\ session' = init_session_state
            /\ heap' = Collect(heap, users_db, session')
       ELSE /\ session' = EstablishedSession(email, users_db[email], now)
            /\ login_attempts' = record_login_attempt(crl.attempts, email, TRUE, now)
            /\ heap' = Collect(heap, users_db, session')

\* mutant: the session is marked authenticated before the profile is read
login_early_session(email) ==
    LET crl == check_rate_limit(login_attempts, email, now)
        res == login_result(email)
    IN
    /\ UNCHANGED <<role_call, now, ticks, users_db, users_file, muts>>
    /\ IF res.msg = "RateLimited"
       THEN /\ login_attempts' = crl.attempts
            /\ UNCHANGED <<session, heap>>
       ELSE IF res.msg = "AuthError"
       THEN /\ login_attempts' = crl.attempts
            /\ session' = [session EXCEPT !.authenticated = TRUE, !.user = email]
            /\ UNCHANGED heap
       ELSE IF ~res.ok
       THEN /\ login_attempts' = record_login_attempt(crl.attempts, email, FALSE, now)
            /\ UNCHANGED <<session, heap>>
       ELSE /\ session' = EstablishedSession(email, users_db[email], now)
            /\ login_attempts' = record_login_attempt(crl.attempts, email, TRUE, now)
            /\ heap' = Collect(heap, users_db, session')

login(email) ==
    LET crl == check_rate_limit(login_attempts, email, now)
        res == login_result(email)
    IN
    /\ UNCHANGED <<role_call, now, ticks, users_db, users_file, muts>>
    /\ IF res.msg = "RateLimited" \/ res.msg = "AuthError"
       THEN \* only check_rate_limit has written
            /\ login_attempts' = crl.attempts
            /\ UNCHANGED <<session, heap>>
       ELSE IF ~res.ok
       THEN /\ login_attempts' = record_login_attempt(crl.attempts, email, FALSE, now)
            /\ UNCHANGED <<session, heap>>
       ELSE /\ session' = EstablishedSession(email, users_db[email], now)
            /\ login_attempts' = record_login_attempt(crl.attempts, email, TRUE, now)
            /\ heap' = Collect(heap, users_db, session')

----------------------------------------------------------------------------
(* logout and check_session_timeout.  st.rerun() is the framework's: it    *)
(* changes none of the fields modelled here.                               *)

\* mutant: user_data is not cleared
logout_keeps_profile ==
    /\ session' = [init_session_state EXCEPT !.user_data = session.user_data]
    /\ heap' = Collect(heap, users_db, session')
    /\ UNCHANGED <<role_call, now, ticks, users_db, users_file, login_attempts, muts>>

logout ==
    /\ session' = init_session_state
    /\ heap' = Collect(heap, users_db, session')
    /\ UNCHANGED <<role_call, now, ticks, users_db, users_file, login_attempts, muts>>

\* mutant: a session idle for exactly the timeout is expired
Expired_inclusive(elapsed, timeout) == elapsed >= timeout

\* the expiry test of check_session_timeout
Expired(elapsed, timeout) == elapsed > timeout

\* what check_session_timeout returns
check_session_timeout_result ==
    IF session.authenticated /\ session.last_activity # NoTime
    THEN ~Expired(now - session.last_activity, Get(config, "timeout_sesion", 3600))
    ELSE TRUE

check_session_timeout ==
    /\ UNCHANGED <<role_call, now, ticks, users_db, users_file, login_attempts, muts>>
    /\ IF session.authenticated /\ session.last_activity # NoTime
       THEN IF ~check_session_timeout_result
            THEN \* self.logout()
                 /\ session' = init_session_state
                 /\ heap' = Collect(heap, users_db, session')
            ELSE /\ session' = [session EXCEPT !.last_activity = now]
                 /\ UNCHANGED heap
       ELSE UNCHANGED <<session, heap>>

----------------------------------------------------------------------------
(* login_required: the wrapper put around a protected function.  st.stop() *)
(* ends the script run, so the body of the function is not reached.        *)

\* mutant: the wrapper does not look at the session timeout
wrapper_runs_body_unchecked == session.authenticated

\* whether this call of the wrapper reaches func(*args, **kwargs)
wrapper_runs_body == session.authenticated /\ check_session_timeout_result

\* a call of a function wrapped by login_required
wrapper ==
    IF ~session.authenticated
    THEN \* st.error, st.stop
         UNCHANGED vars
    ELSE check_session_timeout

----------------------------------------------------------------------------
(* Authorization queries: they read the session and change nothing *)

\* truth value of st.session_state.user_data (None and {} are falsy)
HasUserData == session.user_data # NoRef /\ DOMAIN heap[session.user_data] # {}

get_user_role ==
    IF session.authenticated /\ HasUserData
    THEN Get(heap[session.user_data], "rol", NoneStr)
    ELSE NoneStr

get_user_permissions ==
    IF session.authenticated /\ HasUserData
    THEN Get(heap[session.user_data], "permisos", << >>)
    ELSE << >>

\* mutant: the admin shortcut is missing
is_authorized_listed(permission) ==
    IF ~session.authenticated THEN FALSE
    ELSE InList(permission, get_user_permissions)

is_authorized(permission) ==
    IF ~session.authenticated THEN FALSE
    ELSE IF get_user_role = "admin" THEN TRUE
    ELSE InList(permission, get_user_permissions)

\* str.lower() on the department names that occur
Lower(str) ==
    CASE str = "Informatica" -> "informatica"
      [] str = "QUIMICA" -> "quimica"
      [] OTHER -> str

\* a DataFrame: its column names and its rows in order
DataFrame(columns, rows) == [columns |-> columns, rows |-> rows]

\* the answer of filter_data_by_role to an unauthenticated caller
NoData == DataFrame({}, << >>)

\* data[data[column].str.lower() == dept.lower()]
RowsOfDept(data, column, dept) ==
    DataFrame(data.columns,
              SelectSeq(data.rows, LAMBDA row : Lower(row[column]) = Lower(dept)))

filter_data_by_role(data, department_column) ==
    LET user_data == heap[session.user_data]
        user_dept == Get(user_data, "departamento", NoneStr)
    IN  IF ~session.authenticated THEN NoData
        ELSE IF get_user_role = "admin" THEN data
        ELSE IF Get(user_data, "facultad", NoneStr) = "todas" THEN data
        ELSE IF user_dept # NoneStr /\ user_dept # "" /\ department_column \in data.columns
        THEN RowsOfDept(data, department_column, user_dept)
        ELSE data

\* the permission strings is_authorized is asked about ("borrar_todo" is in no role)
Permissions ==
    {"lectura", "escritura", "exportacion", "admin", "gestion", "reportes", "borrar_todo"}

\* the department names found in datasets
DeptValues == {"informatica", "Informatica", "quimica"}

\* a dataset with an id column and one more column holding `values`, row by row
Dataset(column, values) ==
    DataFrame({"id", column},
              [i \in 1..Len(values) |-> ("id" :> i) @@ (column :> values[i])])

\* the datasets filter_data_by_role is called with: with and without a departamento column
Datasets ==
    {Dataset(c, v) : c \in {"departamento", "curso"},
                     v \in UNION {[1..n -> DeptValues] : n \in 0..MaxRows}}

----------------------------------------------------------------------------
(* Directory operations *)

\* the profiles add_user is called with
UserInfos ==
    { [nombre |-> "Decana", rol |-> "decano", facultad |-> "quimica",
       permisos |-> <<"lectura">>] }

\* the partial profiles update_user is called with
Updates ==
    { [activo |-> FALSE], [rol |-> "admin"] }

\* the in-place update loop of update_user followed by the modification stamp
Updated(profile, updates, t) ==
    [k \in DOMAIN profile \cup DOMAIN updates \cup {"fecha_modificacion"} |->
        IF k = "fecha_modificacion" THEN isoformat(t)
        ELSE IF k \in DOMAIN updates THEN updates[k] ELSE profile[k]]

\* the stamps add_user puts on the caller's dict
Stamped(user_info, t) ==
    Put(Put(user_info, "fecha_creacion", isoformat(t)),
        "activo", Get(user_info, "activo", TRUE))

\* mutant: the test for an existing entry is missing
add_user_result_overwrites(email) ==
    IF ~validate_domain(email) THEN Returned(FALSE, "InvalidDomain")
    ELSE Returned(TRUE, "Added")

\* what add_user returns
add_user_result(email) ==
    IF email \in DOMAIN users_db THEN Returned(FALSE, "AlreadyExists")
    ELSE IF ~validate_domain(email) THEN Returned(FALSE, "InvalidDomain")
    ELSE Returned(TRUE, "Added")

\* mutant: the store is written before the new entry is put in the directory
add_user_saves_first(email, user_info, io_ok) ==
    /\ UNCHANGED <<role_call, now, ticks, login_attempts, session>>
    /\ IF ~add_user_result(email).ok
       THEN UNCHANGED <<users_db, heap, users_file, muts>>
       ELSE /\ muts < MaxMuts
            /\ muts' = muts + 1
            /\ users_db' = Put(users_db, email, FreshRef(heap))
            /\ heap' = Put(heap, FreshRef(heap), Stamped(user_info, now))
            /\ users_file' = save_users(users_db, heap, users_file, io_ok)

add_user(email, user_info, io_ok) ==
    /\ UNCHANGED <<role_call, now, ticks, login_attempts, session>>
    /\ IF ~add_user_result(email).ok
       THEN UNCHANGED <<users_db, heap, users_file, muts>>
       ELSE /\ muts < MaxMuts
            /\ muts' = muts + 1
            /\ users_db' = Put(users_db, email, FreshRef(heap))
            /\ heap' = Put(heap, FreshRef(heap), Stamped(user_info, now))
            /\ users_file' = save_users(users_db', heap', users_file, io_ok)

\* what update_user returns
update_user_result(email) ==
    IF email \notin DOMAIN users_db THEN Returned(FALSE, "NotFound")
    ELSE IF users_db[email] = NoRef
    THEN \* item assignment on None raises TypeError, caught by the handler
         Returned(FALSE, "Error")
    ELSE Returned(TRUE, "Updated")

update_user(email, updates, io_ok) ==
    /\ UNCHANGED <<role_call, now, ticks, login_attempts, session>>
    /\ IF ~update_user_result(email).ok
       THEN UNCHANGED <<users_db, heap, users_file, muts>>
       ELSE /\ muts < MaxMuts
            /\ muts' = muts + 1
            /\ heap' = Put(heap, users_db[email], Updated(heap[users_db[email]], updates, now))
            /\ users_file' = save_users(users_db, heap', users_file, io_ok)
            /\ UNCHANGED users_db

\* mutant: the bootstrap administrator is not protected
delete_user_result_unprotected(email) ==
    IF email \in DOMAIN users_db THEN Returned(TRUE, "Deleted")
    ELSE Returned(FALSE, "NotFound")

\* what delete_user returns
delete_user_result(email) ==
    IF email \notin DOMAIN users_db THEN Returned(FALSE, "NotFound")
    ELSE IF email = ADMIN THEN Returned(FALSE, "ProtectedEntity")
    ELSE Returned(TRUE, "Deleted")

delete_user(email, io_ok) ==
    /\ UNCHANGED <<role_call, now, ticks, login_attempts, session>>
    /\ IF ~delete_user_result(email).ok
       THEN UNCHANGED <<users_db, heap, users_file, muts>>
       ELSE /\ muts < MaxMuts
            /\ muts' = muts + 1
            /\ users_db' = Del(users_db, email)
            /\ heap' = Collect(heap, users_db', session)
            /\ users_file' = save_users(users_db', heap', users_file, io_ok)

----------------------------------------------------------------------------
Next ==
    \/ \E d \in Deltas : Advance(d)
    \/ \E e \in LoginEmails : login(e)
    \/ logout
    \/ check_session_timeout
    \/ \E e \in AddEmails, u \in UserInfos : add_user(e, u, TRUE)
    \/ \E e \in UpdateEmails, u \in Updates : update_user(e, u, TRUE)
    \/ \E e \in DeleteEmails : delete_user(e, TRUE)

Spec == Init /\ [][Next]_vars

----------------------------------------------------------------------------
(* A hostile environment: the store was edited by hand, writes to it may   *)
(* fail, and login may be handed None.  All calls are made at the instant  *)
(* of construction.                                                        *)

\* a users.json edited by hand: one entry is null, one profile has no activo flag
EditedFile ==
    StoredFile(
        Serialize((JUAN :> NoRef) @@ (NUEVO :> 1),
                  (1 :> [nombre |-> "Nuevo", rol |-> "profesor",
                         facultad |-> "ingenieria", departamento |-> "informatica",
                         permisos |-> <<"lectura">>])))

\* the identities login is handed in this environment (NoUser is login(None))
FaultEmails == {NoUser, JUAN, NUEVO, EVE}

\* the identities add_user is called with in this environment
FaultAddEmails == {NUEVO}

InitFaults ==
    /\ now = 0
    /\ ticks = 0
    /\ muts = 0
    /\ role_call = NoCall
    /\ \E file \in {MissingFile, EditedFile}, io_ok \in BOOLEAN : Constructed(file, io_ok)

NextFaults ==
    \/ \E e \in FaultEmails : login(e)
    \/ logout
    \/ \E e \in FaultAddEmails, u \in UserInfos, io_ok \in BOOLEAN : add_user(e, u, io_ok)
    \/ \E e \in UpdateEmails, u \in Updates, io_ok \in BOOLEAN : update_user(e, u, io_ok)
    \/ \E e \in DeleteEmails, io_ok \in BOOLEAN : delete_user(e, io_ok)

SpecFaults == InitFaults /\ [][NextFaults]_vars

----------------------------------------------------------------------------
(* The rate limiter on a fine clock: only logins, and the clock moving by  *)
(* steps shorter than the lockout.                                         *)

\* seconds by which the clock moves between two logins
FineDeltas == {1, lockout_duration - 1, lockout_duration}

NextClock ==
    \/ \E d \in FineDeltas : Advance(d)
    \/ \E e \in LoginEmails : login(e)

SpecClock == Init /\ [][NextClock]_vars

----------------------------------------------------------------------------
(* Protected pages: the session is only used through functions wrapped by  *)
(* login_required.                                                         *)

NextPages ==
    \/ \E d \in Deltas : Advance(d)
    \/ \E e \in LoginEmails : login(e)
    \/ logout
    \/ wrapper

SpecPages == Init /\ [][NextPages]_vars

----------------------------------------------------------------------------
(* A second AuthenticationSystem: create_auth_system() builds a new        *)
(* instance, which the application uses from then on.  The model keeps the *)
(* fields of the instance in use; st.session_state belongs to the browser  *)
(* session and outlives the instance.                                      *)

create_auth_system ==
    LET loaded == load_users(users_file, now, session.user_data, TRUE)
        kept == {session.user_data} \ {NoRef}
    IN  /\ users_db' = loaded.users_db
        /\ heap' = [r \in DOMAIN loaded.heap \cup kept |->
                        IF r \in kept THEN heap[r] ELSE loaded.heap[r]]
        /\ users_file' = loaded.users_file
        /\ login_attempts' = << >>
        /\ UNCHANGED <<role_call, now, ticks, session, muts>>

NextInstances ==
    \/ Next
    \/ create_auth_system

SpecInstances == Init /\ [][NextInstances]_vars

----------------------------------------------------------------------------
(* config.can_manage_role, a pure function of two role names.  The role    *)
(* names of a call are drawn at the start; third_role is the further role  *)
(* the relation is examined on.                                            *)

\* get_role_hierarchy(): from most to least privileged
get_role_hierarchy == <<"admin", "profesor", "estudiante", "invitado">>

\* list.index(x) raises ValueError
index_raises(list, x) == ~InList(x, list)

\* list.index(x): the 0-based position of the first occurrence
index(list, x) ==
    (CHOOSE i \in 1..Len(list) : list[i] = x /\ \A j \in 1..(i - 1) : list[j] # x) - 1

\* mutant: the comparison of the levels is not strict
can_manage_role_le(manager_role, target_role) ==
    IF index_raises(get_role_hierarchy, manager_role)
        \/ index_raises(get_role_hierarchy, target_role)
    THEN FALSE
    ELSE index(get_role_hierarchy, manager_role) <= index(get_role_hierarchy, target_role)

can_manage_role(manager_role, target_role) ==
    IF index_raises(get_role_hierarchy, manager_role)
        \/ index_raises(get_role_hierarchy, target_role)
    THEN \* except ValueError
         FALSE
    ELSE index(get_role_hierarchy, manager_role) < index(get_role_hierarchy, target_role)

\* the role names can_manage_role is called with: the hierarchy, a role of the
\* directory that is not in it, and None
RoleInputs == {"admin", "profesor", "estudiante", "invitado", "decano", NoneStr}

InitRoles ==
    /\ now = 0
    /\ ticks = 0
    /\ muts = 0
    /\ Constructed(MissingFile, TRUE)
    /\ \E m \in RoleInputs, t \in RoleInputs, u \in RoleInputs :
          role_call = [manager_role |-> m, target_role |-> t, third_role |-> u,
                       done |-> FALSE, result |-> FALSE]

\* the call returns
call_can_manage_role ==
    /\ ~role_call.done
    /\ role_call' = [role_call EXCEPT
                        !.done = TRUE,
                        !.result = can_manage_role(role_call.manager_role,
                                                   role_call.target_role)]
    /\ UNCHANGED <<now, ticks, users_db, heap, users_file, login_attempts, session, muts>>

NextRoles == call_can_manage_role

SpecRoles == InitRoles /\ [][NextRoles]_vars

----------------------------------------------------------------------------
(* Vocabulary of the properties *)

\* the failed-attempt count of an identity (0 when it has no record)
FailedCount(e) == IF e \in DOMAIN login_attempts THEN login_attempts[e].attempts ELSE 0

\* the lockout timestamp of an identity (NoTime when it has none)
LockedUntil(e) == IF e \in DOMAIN login_attempts THEN login_attempts[e].locked_until ELSE NoTime

\* e is locked out and the lockout has not run out yet
Locked(e) == LockedUntil(e) # NoTime /\ now < LockedUntil(e)

\* e is locked out and the lockout has run out (the boundary instant included)
PastLockout(e) == LockedUntil(e) # NoTime /\ now >= LockedUntil(e)

\* e ends with an allow-listed domain suffix
AllowedDomain(e) ==
    \E i \in 1..Len(config.dominios_permitidos) : EndsWith(e, config.dominios_permitidos[i])

\* e has an allow-listed domain, is registered and is active
Eligible(e) ==
    /\ AllowedDomain(e)
    /\ e \in DOMAIN users_db
    /\ "activo" \in DOMAIN heap[users_db[e]]
    /\ heap[users_db[e]].activo = TRUE

\* the profile the authenticated session holds
SessionProfile == heap[session.user_data]

\* the role the policy table gives full access
HasFullAccess(role) ==
    role \in DOMAIN config.roles /\ config.roles[role].acceso_completo

\* the base permissions the policy table gives a role
BasePermissions(role) ==
    IF role \in DOMAIN config.roles THEN config.roles[role].permisos_base ELSE << >>

\* the session fields after logout
LoggedOut ==
    [authenticated |-> FALSE, user |-> NoUser, user_data |-> NoRef,
     login_time |-> NoTime, last_activity |-> NoTime]

\* login(e) runs into an exception: e is None, or the directory entry of e is None
Faulty(e) == e = NoUser \/ (e \in DOMAIN users_db /\ users_db[e] = NoRef)

\* e is registered with a profile that is not active (activo false or missing)
Inactive(e) ==
    /\ e \in DOMAIN users_db
    /\ users_db[e] # NoRef
    /\ ("activo" \notin DOMAIN heap[users_db[e]] \/ heap[users_db[e]].activo = FALSE)

\* the failed-attempt count the rate-limit gate leaves for e
CountAfterGate(e) == IF PastLockout(e) THEN 0 ELSE FailedCount(e)

\* the outcome of login(e) by the first gate that fails, in the order
\* rate limit, domain, directory lookup, active flag
GateOutcome(e) ==
    IF Locked(e) THEN Returned(FALSE, "RateLimited")
    ELSE IF ~AllowedDomain(e) THEN Returned(FALSE, "DomainRejected")
    ELSE IF e \notin DOMAIN users_db THEN Returned(FALSE, "NotRegistered")
    ELSE IF Inactive(e) THEN Returned(FALSE, "InactiveAccount")
    ELSE Returned(TRUE, "Bienvenido")

\* login(e) is rejected by the domain, the directory or the active-flag gate
RejectedAfterRateGate(e) ==
    login_result(e).msg \in {"DomainRejected", "NotRegistered", "InactiveAccount"}

\* the persisted store holds exactly the in-memory directory
Persisted == users_file = StoredFile(Serialize(users_db, heap))

\* the in-memory directory by value
Directory == [e \in DOMAIN users_db |-> heap[users_db[e]]]

----------------------------------------------------------------------------
(* C1.  Once max_attempts failed logins of an identity are on record, the  *)
(* identity is locked until the instant of that failure plus               *)
(* lockout_duration, and every login of it made strictly before that       *)
(* instant returns RateLimited and establishes no session, also when the   *)
(* identity is by then an allowed, registered, active user.                *)

C1_LockoutRejects ==
    /\ [](\A e \in LoginEmails :
            FailedCount(e) >= max_attempts =>
                LockedUntil(e) = login_attempts[e].last_attempt + lockout_duration)
    /\ [](\A e \in LoginEmails :
            Locked(e) => login_result(e) = Returned(FALSE, "RateLimited"))
    /\ [][\A e \in LoginEmails :
            /\ (login(e) /\ ~Locked(e) /\ ~login_result(e).ok
                    /\ FailedCount(e)' >= max_attempts)
                => LockedUntil(e)' = now + lockout_duration
            /\ (login(e) /\ Locked(e)) => UNCHANGED <<session, login_attempts>>]_vars

\* a locked identity that has meanwhile become an eligible user
C1_Witness ==
    \E e \in LoginEmails : Locked(e) /\ Eligible(e) /\ FailedCount(e) = max_attempts

----------------------------------------------------------------------------
(* C2.  A login of a locked identity made at or after locked_until (the    *)
(* boundary instant included), the identity being allowed, registered and  *)
(* active, succeeds, establishes the session, and leaves the attempt       *)
(* record with no failed attempt and no lockout.                           *)

C2_ExpiredLockoutAdmits ==
    /\ [](\A e \in LoginEmails :
            (PastLockout(e) /\ Eligible(e)) => login_result(e) = Returned(TRUE, "Bienvenido"))
    /\ [][\A e \in LoginEmails :
            (login(e) /\ PastLockout(e) /\ Eligible(e))
                => /\ session'.authenticated
                   /\ session'.user = e
                   /\ FailedCount(e)' = 0
                   /\ LockedUntil(e)' = NoTime]_vars

\* an eligible identity at the very instant its lockout runs out
C2_Witness ==
    \E e \in LoginEmails : Eligible(e) /\ LockedUntil(e) # NoTime /\ now = LockedUntil(e)

----------------------------------------------------------------------------
(* C3 as stated.  For an identity that matches no allow-listed suffix,     *)
(* login rejects with DomainRejected in every reachable state and leaves   *)
(* the directory unchanged.                                                *)

C3_Original ==
    /\ [](\A e \in LoginEmails :
            ~AllowedDomain(e) => login_result(e) = Returned(FALSE, "DomainRejected"))
    /\ [][\A e \in LoginEmails :
            (login(e) /\ ~AllowedDomain(e)) => UNCHANGED <<users_db, heap, users_file>>]_vars

(* C3 as amended.  For an identity that matches no allow-listed suffix,    *)
(* login rejects with RateLimited while the identity is locked out and     *)
(* with DomainRejected otherwise; either way the directory is unchanged    *)
(* and no session is established.                                          *)

C3_DomainRejected ==
    /\ [](\A e \in LoginEmails :
            ~AllowedDomain(e) =>
                login_result(e) = IF Locked(e) THEN Returned(FALSE, "RateLimited")
                                  ELSE Returned(FALSE, "DomainRejected"))
    /\ [][\A e \in LoginEmails :
            (login(e) /\ ~AllowedDomain(e))
                => UNCHANGED <<users_db, heap, users_file, session>>]_vars

\* an identity of a foreign domain locked out by its own rejected logins
C3_Witness ==
    \E e \in LoginEmails : ~AllowedDomain(e) /\ Locked(e) /\ e \notin DOMAIN users_db

----------------------------------------------------------------------------
(* C4 as stated.  The profile of an active session is a point-in-time      *)
(* copy: update_user and delete_user leave the profile the session holds,  *)
(* and so every is_authorized and filter_data_by_role answer, unchanged.   *)

C4_Original ==
    [][( /\ session.authenticated
         /\ \/ \E e \in UpdateEmails, u \in Updates : update_user(e, u, TRUE)
            \/ \E e \in DeleteEmails : delete_user(e, TRUE) )
        => /\ session'.authenticated
           /\ SessionProfile' = SessionProfile
           /\ \A p \in Permissions : is_authorized(p)' = is_authorized(p)
           /\ \A data \in Datasets :
                filter_data_by_role(data, "departamento")'
                    = filter_data_by_role(data, "departamento")]_vars

----------------------------------------------------------------------------
(* C5 as stated.  For a session whose role has no full access,             *)
(* is_authorized(p) is true exactly when p is among the role's base        *)
(* permissions or in the profile's own permission list.                    *)

C5_Original ==
    \A p \in Permissions :
        (session.authenticated /\ ~HasFullAccess(Get(SessionProfile, "rol", NoneStr)))
            => (is_authorized(p) <=>
                    \/ InList(p, BasePermissions(Get(SessionProfile, "rol", NoneStr)))
                    \/ InList(p, Get(SessionProfile, "permisos", << >>)))

----------------------------------------------------------------------------
(* C6.  For an authenticated session whose profile has role admin,         *)
(* is_authorized(p) is true for every permission string p, also one that   *)
(* is in no role's base permissions and not in the profile's own list.     *)

C6_AdminHasAll ==
    \A p \in Permissions :
        (session.authenticated /\ Get(SessionProfile, "rol", NoneStr) = "admin")
            => is_authorized(p)

\* an admin session asked about a permission listed nowhere
C6_Witness ==
    /\ session.authenticated
    /\ Get(SessionProfile, "rol", NoneStr) = "admin"
    /\ \E p \in Permissions :
          /\ ~InList(p, Get(SessionProfile, "permisos", << >>))
          /\ \A r \in DOMAIN config.roles : ~InList(p, config.roles[r].permisos_base)
          /\ is_authorized(p)

----------------------------------------------------------------------------
(* C7 as stated.  delete_user of admin@utem.cl returns ProtectedEntity and *)
(* leaves the directory unchanged in every reachable state, also when      *)
(* admin@utem.cl is not in the directory.                                  *)

C7_Original ==
    /\ [](delete_user_result(ADMIN) = Returned(FALSE, "ProtectedEntity"))
    /\ [][delete_user(ADMIN, TRUE) => UNCHANGED <<users_db, heap, users_file>>]_vars

(* C7 as amended.  delete_user of admin@utem.cl returns ProtectedEntity    *)
(* when admin@utem.cl is in the directory and NotFound when it is not; in  *)
(* both cases the directory is unchanged.                                  *)

C7_AdminProtected ==
    /\ [](delete_user_result(ADMIN) =
            IF ADMIN \in DOMAIN users_db THEN Returned(FALSE, "ProtectedEntity")
            ELSE Returned(FALSE, "NotFound"))
    /\ [][delete_user(ADMIN, TRUE) => UNCHANGED <<users_db, heap, users_file>>]_vars

\* the administrator is still there after another user was deleted
C7_Witness ==
    /\ ADMIN \in DOMAIN users_db
    /\ JUAN \notin DOMAIN users_db
    /\ delete_user_result(ADMIN) = Returned(FALSE, "ProtectedEntity")

----------------------------------------------------------------------------
(* C8.  check_session_timeout on an authenticated session: when the time   *)
(* since last_activity is strictly greater than the idle timeout the       *)
(* session is cleared as by logout and the result is false; otherwise      *)
(* (idle for exactly the timeout included) the result is true,             *)
(* last_activity becomes now and no other session field changes.           *)

C8_IdleTimeout ==
    /\ [](session.authenticated =>
            (check_session_timeout_result <=> now - session.last_activity <= timeout_sesion))
    /\ [][(check_session_timeout /\ session.authenticated)
            => IF now - session.last_activity > timeout_sesion
               THEN session' = LoggedOut
               ELSE session' = [session EXCEPT !.last_activity = now]]_vars

\* a session kept alive by a check made exactly timeout_sesion after login
C8_Witness ==
    /\ session.authenticated
    /\ session.last_activity = session.login_time + timeout_sesion

----------------------------------------------------------------------------
(* C9 as stated.  For an authenticated session whose role has no full      *)
(* access and whose faculty is not the sentinel "todas",                   *)
(* filter_data_by_role returns exactly the rows whose department equals    *)
(* the profile's department ignoring case, in their order, for every       *)
(* dataset: no row at all when the dataset has no such column or the       *)
(* profile has no department.                                              *)

\* the rows of data whose `column` is the unit, ignoring case
RowsOfUnit(data, column, unit) ==
    SelectSeq(data.rows,
              LAMBDA row : /\ unit # NoneStr
                           /\ column \in DOMAIN row
                           /\ Lower(row[column]) = Lower(unit))

C9_Original ==
    \A data \in Datasets :
        ( /\ session.authenticated
          /\ ~HasFullAccess(Get(SessionProfile, "rol", NoneStr))
          /\ Get(SessionProfile, "facultad", NoneStr) # "todas" )
            => filter_data_by_role(data, "departamento").rows
                 = RowsOfUnit(data, "departamento",
                              Get(SessionProfile, "departamento", NoneStr))

----------------------------------------------------------------------------
(* C10.  A successful login of an identity leaves its attempt record with  *)
(* no failed attempt and no lockout, whatever the number of failed         *)
(* attempts recorded before.                                               *)

C10_SuccessResets ==
    [][\A e \in LoginEmails :
        (login(e) /\ login_result(e).ok)
            => /\ e \in DOMAIN login_attempts'
               /\ login_attempts'[e].attempts = 0
               /\ login_attempts'[e].locked_until = NoTime]_vars

\* an eligible identity with failed attempts on record, below the threshold
C10_Witness ==
    \E e \in LoginEmails :
        /\ Eligible(e)
        /\ FailedCount(e) > 0 /\ FailedCount(e) < max_attempts
        /\ login_result(e).ok

----------------------------------------------------------------------------
(* C11 as stated.  After every add_user, update_user or delete_user that   *)
(* returned success the persisted store equals the in-memory directory,    *)
(* also when the write to the store failed (the operation then has to      *)
(* return a failure).                                                      *)

C11_Original ==
    [][\A io_ok \in BOOLEAN :
        /\ \A e \in FaultAddEmails, u \in UserInfos :
              (add_user(e, u, io_ok) /\ add_user_result(e).ok) => Persisted'
        /\ \A e \in UpdateEmails, u \in Updates :
              (update_user(e, u, io_ok) /\ update_user_result(e).ok) => Persisted'
        /\ \A e \in DeleteEmails :
              (delete_user(e, io_ok) /\ delete_user_result(e).ok) => Persisted']_vars

----------------------------------------------------------------------------
(* C12 as stated.  After startup, on a missing store as on a corrupt one,  *)
(* the in-memory directory is empty (until the first mutation).            *)

C12_Original ==
    muts = 0 => users_db = << >>

(* C12 as amended.  After startup on a corrupt store the in-memory         *)
(* directory is empty and the store is left as it was; after startup on a  *)
(* missing store the directory holds the five default users, stamped with  *)
(* the time of startup, and the store has been written with them.          *)

C12_StartupDirectory ==
    muts = 0 =>
        IF users_file = CorruptFile
        THEN users_db = << >>
        ELSE Directory = default_users(0) /\ Persisted

\* started on a missing store: the default users are there and the store exists
C12_Witness ==
    /\ muts = 0
    /\ users_file.state = "ok"
    /\ DOMAIN users_db = {ADMIN, VICTOR, MARIA, JUAN, ANA}

----------------------------------------------------------------------------
(* C13.  After add_user(e, profile) returned success and the store was     *)
(* written, a directory re-loaded from the store has e with a profile      *)
(* equal in every field to the in-memory one (the given fields, the        *)
(* fecha_creacion stamp and the defaulted activo flag), and has every      *)
(* other entry as it was in memory before the call.                        *)

\* the directory a new load_users builds from the store
Reloaded(file) == load_users(file, now, NoRef, TRUE)

\* entry x of a directory (db, hp) equals entry x of the directory (db2, hp2)
SameEntry(x, db, hp, db2, hp2) ==
    /\ x \in DOMAIN db /\ x \in DOMAIN db2
    /\ (db[x] = NoRef) <=> (db2[x] = NoRef)
    /\ db[x] # NoRef => hp[db[x]] = hp2[db2[x]]

C13_RoundTrip ==
    [][\A e \in FaultAddEmails, u \in UserInfos :
        (add_user(e, u, TRUE) /\ add_user_result(e).ok)
            => /\ SameEntry(e, Reloaded(users_file').users_db, Reloaded(users_file').heap,
                            users_db', heap')
               /\ Reloaded(users_file').heap[Reloaded(users_file').users_db[e]]
                    = Put(Put(u, "fecha_creacion", isoformat(now)), "activo", TRUE)
               /\ DOMAIN Reloaded(users_file').users_db = DOMAIN users_db \cup {e}
               /\ \A x \in DOMAIN users_db :
                    SameEntry(x, Reloaded(users_file').users_db, Reloaded(users_file').heap,
                              users_db, heap)]_vars

\* an identity added next to the default users, and the store written
C13_Witness ==
    /\ NUEVO \in DOMAIN users_db
    /\ ADMIN \in DOMAIN users_db
    /\ users_db[NUEVO] # NoRef
    /\ "fecha_creacion" \in DOMAIN heap[users_db[NUEVO]]
    /\ Persisted

----------------------------------------------------------------------------
(* C14.  login returns a (success, message) pair for every input; when it  *)
(* runs into an internal fault (the identity is None, or the directory     *)
(* entry of the identity is not a profile) and the identity is not locked  *)
(* out, the result is the generic authentication error and the session,    *)
(* the directory and the store are exactly as before the call.             *)

C14_FaultContained ==
    /\ [](\A e \in FaultEmails :
            /\ login_result(e).ok \in BOOLEAN
            /\ (Faulty(e) /\ ~Locked(e)) => login_result(e) = Returned(FALSE, "AuthError"))
    /\ [][\A e \in FaultEmails :
            (login(e) /\ Faulty(e))
                => UNCHANGED <<session, users_db, heap, users_file>>]_vars

\* login(None) and the login of a null directory entry have both been made
C14_Witness ==
    /\ NoUser \in DOMAIN login_attempts
    /\ JUAN \in DOMAIN login_attempts
    /\ JUAN \in DOMAIN users_db
    /\ users_db[JUAN] = NoRef

----------------------------------------------------------------------------
(* C15 as stated.  The login of an identity whose profile is not active    *)
(* (activo false, or no activo flag) returns InactiveAccount, establishes  *)
(* no session, raises the failed count by one and leaves the profile in    *)
(* the directory, in every reachable state.                                *)

C15_Original ==
    /\ [](\A e \in FaultEmails :
            Inactive(e) => login_result(e) = Returned(FALSE, "InactiveAccount"))
    /\ [][\A e \in FaultEmails :
            (login(e) /\ Inactive(e))
                => /\ UNCHANGED <<session, users_db, heap>>
                   /\ FailedCount(e)' = FailedCount(e) + 1]_vars

(* C15 as amended.  The login of an identity of an allowed domain whose    *)
(* profile is not active never establishes a session and leaves the        *)
(* profile in the directory; while the identity is locked out it returns   *)
(* RateLimited and records nothing; otherwise it returns InactiveAccount   *)
(* and records one failed attempt on top of the count the rate-limit gate  *)
(* leaves (zero after an expired lockout).                                 *)

C15_InactiveRefused ==
    /\ [](\A e \in FaultEmails :
            (Inactive(e) /\ AllowedDomain(e)) =>
                login_result(e) = IF Locked(e) THEN Returned(FALSE, "RateLimited")
                                  ELSE Returned(FALSE, "InactiveAccount"))
    /\ [][\A e \in FaultEmails :
            (login(e) /\ Inactive(e) /\ AllowedDomain(e))
                => /\ UNCHANGED <<session, users_db, heap>>
                   /\ IF Locked(e) THEN UNCHANGED login_attempts
                      ELSE FailedCount(e)' = CountAfterGate(e) + 1]_vars

\* a profile without the activo flag, locked out by its own refused logins
C15_Witness ==
    /\ NUEVO \in DOMAIN users_db
    /\ Inactive(NUEVO)
    /\ "activo" \notin DOMAIN heap[users_db[NUEVO]]
    /\ Locked(NUEVO)

----------------------------------------------------------------------------
(* C16.  logout, from any session state, leaves authenticated false and    *)
(* user, user_data, login_time and last_activity empty; a session that is  *)
(* not authenticated has all its fields empty, is_authorized is false for  *)
(* every permission in it, and only a successful login makes it            *)
(* authenticated again.                                                    *)

C16_LogoutClears ==
    /\ [][logout => session' = LoggedOut]_vars
    /\ [](~session.authenticated =>
            /\ session = LoggedOut
            /\ \A p \in Permissions : ~is_authorized(p))
    /\ [][(~session.authenticated /\ session'.authenticated)
            => \E e \in LoginEmails : login(e) /\ login_result(e).ok]_vars

\* a logged-out session of an identity that had logged in
C16_Witness ==
    /\ session = LoggedOut
    /\ \E e \in LoginEmails :
          /\ Eligible(e)
          /\ e \in DOMAIN login_attempts
          /\ login_attempts[e].attempts = 0
    /\ \A p \in Permissions : ~is_authorized(p)

----------------------------------------------------------------------------
(* C17 as stated.  login returns the outcome of the first failing gate in  *)
(* the order rate limit, domain, directory lookup, active flag, and a      *)
(* rejection by the domain, directory or active-flag gate leaves the       *)
(* failed count of the identity one higher than it was before the call.    *)

C17_Original ==
    /\ [](\A e \in LoginEmails : login_result(e) = GateOutcome(e))
    /\ [][\A e \in LoginEmails :
            (login(e) /\ RejectedAfterRateGate(e))
                => FailedCount(e)' = FailedCount(e) + 1]_vars

(* C17 as amended.  login returns the outcome of the first failing gate in *)
(* the order rate limit, domain, directory lookup, active flag, and a      *)
(* rejection by the domain, directory or active-flag gate leaves the       *)
(* failed count one higher than the count the rate-limit gate left: the    *)
(* count before the call, or zero when the gate reset an expired lockout.  *)

C17_GateOrder ==
    /\ [](\A e \in LoginEmails : login_result(e) = GateOutcome(e))
    /\ [][\A e \in LoginEmails :
            (login(e) /\ RejectedAfterRateGate(e))
                => FailedCount(e)' = CountAfterGate(e) + 1]_vars

\* an identity whose lockout has run out and whose next login will be rejected
C17_Witness ==
    \E e \in LoginEmails :
        /\ PastLockout(e)
        /\ FailedCount(e) = max_attempts
        /\ RejectedAfterRateGate(e)

----------------------------------------------------------------------------
(* C18.  A login rejected by the rate limiter changes nothing: the attempt *)
(* record of the identity (failed count, last attempt, locked_until), the  *)
(* session and the directory are as before; and a lockout timestamp is     *)
(* always the instant of the last recorded failure plus lockout_duration.  *)

C18_LockedLoginChangesNothing ==
    /\ [][\A e \in LoginEmails :
            (login(e) /\ Locked(e))
                => UNCHANGED <<login_attempts, session, users_db, heap, users_file>>]_vars
    /\ [](\A e \in LoginEmails :
            LockedUntil(e) # NoTime =>
                /\ FailedCount(e) >= max_attempts
                /\ LockedUntil(e) = login_attempts[e].last_attempt + lockout_duration)

\* a lockout under way: time has passed since the failure that triggered it
C18_Witness ==
    \E e \in LoginEmails :
        /\ Locked(e)
        /\ now > login_attempts[e].last_attempt
        /\ login_result(e) = Returned(FALSE, "RateLimited")

----------------------------------------------------------------------------
(* C19.  add_user of an existing or not allow-listed identity, update_user *)
(* of an absent identity and delete_user of an absent identity or of the   *)
(* administrator return a failure and leave the directory and the store    *)
(* unchanged; add_user never replaces an entry, and every entry it adds    *)
(* has an allow-listed domain.                                             *)

C19_FailedDirectoryOps ==
    /\ [](\A e \in AddEmails \cup UpdateEmails \cup DeleteEmails :
            /\ (e \in DOMAIN users_db \/ ~AllowedDomain(e)) => ~add_user_result(e).ok
            /\ e \notin DOMAIN users_db => ~update_user_result(e).ok
            /\ (e \notin DOMAIN users_db \/ e = ADMIN) => ~delete_user_result(e).ok)
    /\ [][( \/ \E e \in AddEmails, u \in UserInfos :
                  add_user(e, u, TRUE) /\ (e \in DOMAIN users_db \/ ~AllowedDomain(e))
            \/ \E e \in UpdateEmails, u \in Updates :
                  update_user(e, u, TRUE) /\ e \notin DOMAIN users_db
            \/ \E e \in DeleteEmails :
                  delete_user(e, TRUE) /\ (e \notin DOMAIN users_db \/ e = ADMIN) )
            => UNCHANGED <<users_db, heap, users_file>>]_vars
    /\ [][\A e \in DOMAIN users_db' \ DOMAIN users_db : AllowedDomain(e)]_vars

\* an identity was deleted: every operation on it but add_user now fails
C19_Witness ==
    /\ muts > 0
    /\ ADMIN \in DOMAIN users_db
    /\ \E e \in UpdateEmails \cap DeleteEmails :
          /\ e \notin DOMAIN users_db
          /\ update_user_result(e) = Returned(FALSE, "NotFound")
          /\ delete_user_result(e) = Returned(FALSE, "NotFound")
    /\ delete_user_result(ADMIN) = Returned(FALSE, "ProtectedEntity")
    /\ \E e \in AddEmails : add_user_result(e) = Returned(FALSE, "InvalidDomain")

----------------------------------------------------------------------------
(* C20 as stated.  The failed count and the lockout recorded for an        *)
(* identity through one AuthenticationSystem are observed through an       *)
(* instance created later in the same process: after create_auth_system    *)
(* the count is the same and a locked identity is still rejected.          *)

C20_Original ==
    [][create_auth_system =>
        \A e \in LoginEmails :
            /\ FailedCount(e)' = FailedCount(e)
            /\ Locked(e) => login_result(e)' = Returned(FALSE, "RateLimited")]_vars

----------------------------------------------------------------------------
(* C21.  A function wrapped by login_required runs its body exactly when   *)
(* the session is authenticated and the time since last_activity does not  *)
(* exceed the timeout; a call that runs the body sets last_activity to now *)
(* and changes no other session field, a call that finds the session       *)
(* expired clears the session, and a call without a session changes        *)
(* nothing.                                                                *)

C21_GuardedBody ==
    /\ [](wrapper_runs_body <=>
            (session.authenticated /\ now - session.last_activity <= timeout_sesion))
    /\ [][wrapper =>
            IF ~session.authenticated THEN UNCHANGED session
            ELSE IF now - session.last_activity <= timeout_sesion
            THEN session' = [session EXCEPT !.last_activity = now]
            ELSE session' = LoggedOut]_vars

\* a session whose last activity was refreshed after its login
C21_Witness ==
    /\ session.authenticated
    /\ session.last_activity > session.login_time
    /\ wrapper_runs_body

----------------------------------------------------------------------------
(* C22.  can_manage_role(m, t) is true exactly when m and t are both in    *)
(* the hierarchy admin, profesor, estudiante, invitado and m comes         *)
(* strictly before t; the relation is irreflexive, asymmetric and          *)
(* transitive, and false when either role is not in the hierarchy.         *)

\* the pairs (m, t) with m strictly before t in the hierarchy
StrictlyBefore ==
    { <<"admin", "profesor">>, <<"admin", "estudiante">>, <<"admin", "invitado">>,
      <<"profesor", "estudiante">>, <<"profesor", "invitado">>,
      <<"estudiante", "invitado">> }

\* the role names of the hierarchy
KnownRoles == {"admin", "profesor", "estudiante", "invitado"}

C22_ManageRelation ==
    LET m == role_call.manager_role
        t == role_call.target_role
        u == role_call.third_role
    IN  /\ role_call.done => (role_call.result <=> <<m, t>> \in StrictlyBefore)
        /\ ~can_manage_role(m, m)
        /\ can_manage_role(m, t) => ~can_manage_role(t, m)
        /\ (can_manage_role(m, t) /\ can_manage_role(t, u)) => can_manage_role(m, u)
        /\ (m \notin KnownRoles \/ t \notin KnownRoles) => ~can_manage_role(m, t)

\* a call that returned true, on a chain of three roles
C22_Witness ==
    /\ role_call.done
    /\ role_call.result
    /\ role_call.manager_role = "admin"
    /\ role_call.target_role = "estudiante"
    /\ role_call.third_role = "invitado"

----------------------------------------------------------------------------
(* C23.  A rejected login, whatever the reason (rate limit, domain, not    *)
(* registered, inactive, internal fault), leaves the session exactly as it *)
(* was: authenticated, user, user_data, login_time, last_activity and the  *)
(* profile the session holds.                                              *)

C23_RejectedLoginKeepsSession ==
    [][\A e \in FaultEmails :
        (login(e) /\ ~login_result(e).ok)
            => /\ session' = session
               /\ session.authenticated => SessionProfile' = SessionProfile]_vars

\* an open session next to rejected logins of three other identities
C23_Witness ==
    /\ session.authenticated
    /\ session.user = JUAN
    /\ NoUser \in DOMAIN login_attempts
    /\ FailedCount(EVE) > 0
    /\ Locked(NUEVO)

----------------------------------------------------------------------------
(* C24.  The session is authenticated exactly when user, user_data,        *)
(* login_time and last_activity are all set; then last_activity is not     *)
(* before login_time; a successful login makes its identity the session's  *)
(* user, and the user changes only by a successful login or by being       *)
(* cleared.                                                                *)

C24_SessionConsistent ==
    /\ [](session.authenticated <=>
            ( /\ session.user # NoUser
              /\ session.user_data # NoRef
              /\ session.login_time # NoTime
              /\ session.last_activity # NoTime ))
    /\ [](session.authenticated => session.last_activity >= session.login_time)
    /\ [][\A e \in LoginEmails :
            (login(e) /\ login_result(e).ok)
                => session'.authenticated /\ session'.user = e]_vars
    /\ [][session'.user # session.user
            => \/ session'.user = NoUser
               \/ \E e \in LoginEmails :
                    login(e) /\ login_result(e).ok /\ session'.user = e]_vars

\* a session opened after the clock has moved, next to a rejected identity
C24_Witness ==
    /\ session.authenticated
    /\ session.user \in LoginEmails
    /\ session.login_time > 0
    /\ session.last_activity = session.login_time
    /\ \E e \in LoginEmails \ {session.user} : FailedCount(e) > 0

----------------------------------------------------------------------------
(* C25.  In every state reached by logins at non-decreasing times, every   *)
(* attempt record has 0 <= attempts <= max_attempts, and its locked_until  *)
(* is set exactly when attempts = max_attempts.                            *)

C25_AttemptRecord ==
    \A e \in DOMAIN login_attempts :
        /\ login_attempts[e].attempts >= 0
        /\ login_attempts[e].attempts <= max_attempts
        /\ login_attempts[e].locked_until # NoTime
              <=> login_attempts[e].attempts = max_attempts

\* a record at the threshold and a record below it, after the clock has moved
C25_Witness ==
    /\ now > 0
    /\ \E e \in DOMAIN login_attempts :
          /\ login_attempts[e].attempts = max_attempts
          /\ login_attempts[e].last_attempt > 0
    /\ \E e \in DOMAIN login_attempts :
          /\ login_attempts[e].attempts > 0
          /\ login_attempts[e].attempts < max_attempts

----------------------------------------------------------------------------
(* C26 as stated.  is_authorized(p) is false for every permission in every *)
(* state where the time since last_activity exceeds the idle timeout, also *)
(* when check_session_timeout has not been called since.                   *)

C26_Original ==
    \A p \in Permissions :
        (session.last_activity # NoTime /\ now - session.last_activity > timeout_sesion)
            => ~is_authorized(p)

----------------------------------------------------------------------------
(* C27.  The failed count of an identity goes down only in a login of that *)
(* identity that succeeds or that follows an expired lockout; and a        *)
(* rejected login that finds max_attempts - 1 failures on record locks the *)
(* identity, however long ago those failures were.                         *)

C27_NoAgeing ==
    /\ [][\A e \in LoginEmails :
            FailedCount(e)' < FailedCount(e)
                => login(e) /\ (login_result(e).ok \/ PastLockout(e))]_vars
    /\ [][\A e \in LoginEmails :
            (login(e) /\ RejectedAfterRateGate(e) /\ FailedCount(e) = max_attempts - 1)
                => /\ FailedCount(e)' = max_attempts
                   /\ LockedUntil(e)' = now + lockout_duration]_vars

\* four failures on record for more than the idle timeout, the fifth about to come
C27_Witness ==
    \E e \in LoginEmails :
        /\ FailedCount(e) = max_attempts - 1
        /\ now - login_attempts[e].last_attempt >= timeout_sesion
        /\ RejectedAfterRateGate(e)

----------------------------------------------------------------------------
(* C28.  A login of identity a neither creates, changes nor removes the    *)
(* attempt record of any other identity.                                   *)

C28_Isolation ==
    [][\A a \in LoginEmails :
        login(a) =>
            \A b \in (DOMAIN login_attempts \cup DOMAIN login_attempts') \ {a} :
                /\ b \in DOMAIN login_attempts
                /\ b \in DOMAIN login_attempts'
                /\ login_attempts'[b] = login_attempts[b]]_vars

\* one identity locked out while another, with a record of its own, is admitted
C28_Witness ==
    \E a \in LoginEmails, b \in LoginEmails :
        /\ a # b
        /\ Locked(a)
        /\ b \in DOMAIN login_attempts
        /\ FailedCount(b) = 0
        /\ login_result(b).ok

====
